---------------------------- MODULE Spec2Model ----------------------------
(***************************************************************************)
(* Firmware Sanity Checker (source/fscMonitor/fscMonitor.c).               *)
(*                                                                         *)
(* The process tells the platform HAL the image validation expiry time,    *)
(* decides from /nvram/forceFSC and the version file whether the XConf     *)
(* check is active, polls /tmp/response.txt every sampleInterval seconds   *)
(* until a firmware name shows up or the shifted expiry time is reached,   *)
(* and reports the verdict to the platform HAL.                            *)
(*                                                                         *)
(* Text is a sequence of one-character strings; a file is a record         *)
(* [exists, data].  The shell pipelines handed to popen() are modelled     *)
(* stage by stage (grep, sed, cut) on that text.                           *)
(***************************************************************************)
EXTENDS Integers, Sequences, FiniteSets, TLC

(***************************************************************************)
(* Program constants                                                       *)
(***************************************************************************)
FSC_TIMEOUT_VALUE == 60 * 60

sampleInterval == 30

timeOffset == 300

DATA_SIZE == 1024

NL == "\n"

KEY_IMAGENAME == <<"i", "m", "a", "g", "e", "n", "a", "m", "e">>

PROD == <<"P", "R", "O", "D">>

KEY_FWPREFIX == <<"\"", "f", "i", "r", "m", "w", "a", "r", "e", "F", "i", "l", "e", "n", "a", "m", "e">>

KEY_FWFIELD == KEY_FWPREFIX \o <<"\"", ":">>

FSS_VERSION_PATH == "/fss/gw/version.txt"

ROOT_VERSION_PATH == "/version.txt"

(***************************************************************************)
(* Files                                                                   *)
(***************************************************************************)
NoFile == [exists |-> FALSE, data |-> <<>>]

File(d) == [exists |-> TRUE, data |-> d]

\* stat(filename, &st) == 0
doesFileExist(f) == f.exists

(***************************************************************************)
(* Text helpers                                                            *)
(***************************************************************************)
Min(S) == CHOOSE x \in S : \A y \in S : x <= y

MatchAt(s, i, pat) ==
    /\ i + Len(pat) - 1 <= Len(s)
    /\ SubSeq(s, i, i + Len(pat) - 1) = pat

RECURSIVE Split(_, _)
\* the fields of s between occurrences of the character sep
Split(s, sep) ==
    LET at == {i \in 1..Len(s) : s[i] = sep}
    IN  IF at = {} THEN <<s>>
        ELSE <<SubSeq(s, 1, Min(at) - 1)>> \o Split(SubSeq(s, Min(at) + 1, Len(s)), sep)

\* the lines of a text, without their terminators; a last line that lacks
\* its terminator still counts as a line
Lines(text) ==
    LET f == Split(text, NL)
    IN  IF f[Len(f)] = <<>> THEN SubSeq(f, 1, Len(f) - 1) ELSE f

RECURSIVE Unlines(_)
\* what a stage writes to its stdout: every line followed by a newline
Unlines(ls) ==
    IF ls = <<>> THEN <<>> ELSE Head(ls) \o <<NL>> \o Unlines(Tail(ls))

(***************************************************************************)
(* cat <version file> | grep '^imagename' | sed 's/imagename[:=]//'        *)
(*                    | cut -f2 -d'_'                                      *)
(***************************************************************************)
GrepImagename(ls) == SelectSeq(ls, LAMBDA l : MatchAt(l, 1, KEY_IMAGENAME))

\* s/imagename[:=]//: the leftmost match is removed, once per line
SedImagename(l) ==
    LET n  == Len(KEY_IMAGENAME)
        at == {i \in 1..Len(l) : /\ MatchAt(l, i, KEY_IMAGENAME)
                                 /\ i + n <= Len(l)
                                 /\ l[i + n] \in {":", "="}}
    IN  IF at = {} THEN l
        ELSE SubSeq(l, 1, Min(at) - 1) \o SubSeq(l, Min(at) + n + 1, Len(l))

\* cut -f2 -d'_': a line without the delimiter is printed whole
CutField2(l) ==
    LET f == Split(l, "_")
    IN  IF Len(f) = 1 THEN l ELSE f[2]

VersionCmd(data) ==
    LET g == GrepImagename(Lines(data))
    IN  Unlines([i \in 1..Len(g) |-> CutField2(SedImagename(g[i]))])

(***************************************************************************)
(* cat /tmp/response.txt | grep -o '"firmwareFilename[^,]*'                *)
(*                       | sed 's/"firmwareFilename"://'                   *)
(***************************************************************************)
RECURSIVE GrepFirmwareLine(_)
\* grep -o: every non-overlapping match of the line, leftmost first, each
\* match running up to the next comma or the end of the line
GrepFirmwareLine(l) ==
    LET at == {i \in 1..Len(l) : MatchAt(l, i, KEY_FWPREFIX)}
    IN  IF at = {} THEN <<>>
        ELSE LET b      == Min(at)
                 commas == {j \in (b + Len(KEY_FWPREFIX))..Len(l) : l[j] = ","}
                 e      == IF commas = {} THEN Len(l) ELSE Min(commas) - 1
             IN  <<SubSeq(l, b, e)>> \o GrepFirmwareLine(SubSeq(l, e + 1, Len(l)))

RECURSIVE GrepFirmware(_)
GrepFirmware(ls) ==
    IF ls = <<>> THEN <<>> ELSE GrepFirmwareLine(Head(ls)) \o GrepFirmware(Tail(ls))

SedFirmware(l) ==
    LET at == {i \in 1..Len(l) : MatchAt(l, i, KEY_FWFIELD)}
    IN  IF at = {} THEN l
        ELSE SubSeq(l, 1, Min(at) - 1) \o SubSeq(l, Min(at) + Len(KEY_FWFIELD), Len(l))

ResponseCmd(data) ==
    LET g == GrepFirmware(Lines(data))
    IN  Unlines([i \in 1..Len(g) |-> SedFirmware(g[i])])

(***************************************************************************)
(* fgets(buf, DATA_SIZE, fp) on a zeroed buffer: at most DATA_SIZE - 1     *)
(* characters, up to and including the first newline; at end of file the   *)
(* buffer keeps its zeros, which is the empty string                       *)
(***************************************************************************)
fgets(size, stream) ==
    LET nls == {i \in 1..Len(stream) : stream[i] = NL}
        eol == IF nls = {} THEN Len(stream) ELSE Min(nls)
        n   == IF eol < size - 1 THEN eol ELSE size - 1
    IN  SubSeq(stream, 1, n)


(***************************************************************************)
(* Sample file contents                                                    *)
(***************************************************************************)
\* imagename:X_PROD_Y
V_Prod == <<"i", "m", "a", "g", "e", "n", "a", "m", "e", ":", "X", "_", "P", "R", "O", "D", "_", "Y", NL>>

\* imagename:X_VBN_Y
V_Vbn == <<"i", "m", "a", "g", "e", "n", "a", "m", "e", ":", "X", "_", "V", "B", "N", "_", "Y", NL>>

\* imagename=X_PROD
V_ProdEq == <<"i", "m", "a", "g", "e", "n", "a", "m", "e", "=", "X", "_", "P", "R", "O", "D", NL>>

\* imagename:X_PROD, the last line not terminated
V_ProdNoNl == <<"i", "m", "a", "g", "e", "n", "a", "m", "e", ":", "X", "_", "P", "R", "O", "D">>

\* no imagename line
V_NoKey == <<"v", "e", "r", "s", "i", "o", "n", ":", "1", NL>>

\* imagename:PROD, a value without underscore
V_Bare == <<"i", "m", "a", "g", "e", "n", "a", "m", "e", ":", "P", "R", "O", "D", NL>>

\* two imagename lines, X_VBN then X_PROD
V_Two == <<"i", "m", "a", "g", "e", "n", "a", "m", "e", ":", "X", "_", "V", "B", "N", NL, "i", "m", "a", "g", "e", "n", "a", "m", "e", ":", "X", "_", "P", "R", "O", "D", NL>>

\* {"firmwareFilename":"a.bin","x":1}
R_Valid == <<"{", "\"", "f", "i", "r", "m", "w", "a", "r", "e", "F", "i", "l", "e", "n", "a", "m", "e", "\"", ":", "\"", "a", ".", "b", "i", "n", "\"", ",", "\"", "x", "\"", ":", "1", "}", NL>>

\* {"x":1}
R_NoKey == <<"{", "\"", "x", "\"", ":", "1", "}", NL>>

\* {"firmwareFilename":,"x":1}
R_EmptyVal == <<"{", "\"", "f", "i", "r", "m", "w", "a", "r", "e", "F", "i", "l", "e", "n", "a", "m", "e", "\"", ":", ",", "\"", "x", "\"", ":", "1", "}", NL>>

\* {"firmwareFilename":"","x":1}
R_Quoted == <<"{", "\"", "f", "i", "r", "m", "w", "a", "r", "e", "F", "i", "l", "e", "n", "a", "m", "e", "\"", ":", "\"", "\"", ",", "\"", "x", "\"", ":", "1", "}", NL>>

\* "firmwareFilename":"a.bin", the last line not terminated
R_ValidNoNl == <<"\"", "f", "i", "r", "m", "w", "a", "r", "e", "F", "i", "l", "e", "n", "a", "m", "e", "\"", ":", "\"", "a", ".", "b", "i", "n", "\"">>

VersionTexts == {V_Prod, V_Vbn, V_ProdEq, V_ProdNoNl, V_NoKey, V_Bare, V_Two, <<>>}

ResponseTexts == {R_Valid, R_NoKey, R_EmptyVal, R_Quoted, R_ValidNoNl, <<>>}

Files(texts) == {NoFile} \cup {File(d) : d \in texts}

(***************************************************************************)
(* isProductionImage()                                                     *)
(***************************************************************************)
\* mutation: /version.txt looked up first
VersionFile_RootFirst(fss, root) ==
    IF doesFileExist(root) THEN ROOT_VERSION_PATH
    ELSE IF doesFileExist(fss) THEN FSS_VERSION_PATH
    ELSE "none"

\* which version file the command is built for (lines 106-115)
VersionFile(fss, root) ==
    IF doesFileExist(fss) THEN FSS_VERSION_PATH
    ELSE IF doesFileExist(root) THEN ROOT_VERSION_PATH
    ELSE "none"

\* mutation: a missing version file taken for a debug image
VersionNotFound_Debug == FALSE

\* what is returned when no version file is found (line 114)
VersionNotFound == TRUE

\* buf[0] != 0 && strcmp(buf, "PROD") == 0
IsProdToken(buf) == buf # <<>> /\ buf = PROD

\* mutation: a pipe that cannot be opened taken for a debug image
isProductionImage_PopenDebug(fss, root, popenOk) ==
    LET cmd == VersionFile(fss, root)
    IN  IF cmd = "none"
        THEN [called |-> TRUE, ret |-> VersionNotFound, cmd |-> cmd,
              piped |-> FALSE, buf |-> <<>>]
        ELSE IF ~popenOk
        THEN [called |-> TRUE, ret |-> FALSE, cmd |-> cmd, piped |-> FALSE,
              buf |-> <<>>]
        ELSE LET data == IF cmd = FSS_VERSION_PATH THEN fss.data ELSE root.data
                 buf  == fgets(DATA_SIZE, VersionCmd(data))
             IN  [called |-> TRUE, ret |-> IsProdToken(buf), cmd |-> cmd,
                  piped |-> TRUE, buf |-> buf]

\* The C function returns ret; cmd, piped and buf record which file the
\* command names, whether the pipe was opened and what fgets read.
isProductionImage(fss, root, popenOk) ==
    LET cmd == VersionFile(fss, root)
    IN  IF cmd = "none"
        THEN [called |-> TRUE, ret |-> VersionNotFound, cmd |-> cmd,
              piped |-> FALSE, buf |-> <<>>]
        ELSE IF ~popenOk
        THEN [called |-> TRUE, ret |-> TRUE, cmd |-> cmd, piped |-> FALSE,
              buf |-> <<>>]
        ELSE LET data == IF cmd = FSS_VERSION_PATH THEN fss.data ELSE root.data
                 buf  == fgets(DATA_SIZE, VersionCmd(data))
             IN  [called |-> TRUE, ret |-> IsProdToken(buf), cmd |-> cmd,
                  piped |-> TRUE, buf |-> buf]

\* what isProductionImage writes to the log
isProductionImageLog(fss, root, popenOk, pcloseOk) ==
    LET r == isProductionImage(fss, root, popenOk)
    IN  IF r.cmd = "none" THEN <<"ERROR version.txt not found">>
        ELSE IF ~r.piped THEN <<"ERROR opening pipe">>
        ELSE <<IF r.ret THEN "INFO production image" ELSE "INFO debug/VBN image">>
             \o (IF pcloseOk THEN <<>> ELSE <<"ERROR closing pipe">>)

(***************************************************************************)
(* validXConfResponse()                                                    *)
(***************************************************************************)
\* mutation: the test inverted
HasFirmwareName_Inverted(buf) == ~(buf # <<>> /\ Len(buf) > 0)

\* buf[0] != 0 && strlen(buf) > 0
HasFirmwareName(buf) == buf # <<>> /\ Len(buf) > 0

validXConfResponse(resp, popenOk) ==
    IF ~doesFileExist(resp)
    THEN [ret |-> FALSE, exists |-> FALSE, piped |-> FALSE, buf |-> <<>>]
    ELSE IF ~popenOk
    THEN [ret |-> FALSE, exists |-> TRUE, piped |-> FALSE, buf |-> <<>>]
    ELSE LET buf == fgets(DATA_SIZE, ResponseCmd(resp.data))
         IN  [ret |-> HasFirmwareName(buf), exists |-> TRUE, piped |-> TRUE,
              buf |-> buf]

\* what validXConfResponse writes to the log
validXConfResponseLog(resp, popenOk, pcloseOk) ==
    LET v == validXConfResponse(resp, popenOk)
    IN  IF ~v.exists THEN <<"WARN no response file">>
        ELSE IF ~v.piped THEN <<"ERROR opening pipe">>
        ELSE <<IF v.ret THEN "INFO firmware name" ELSE "WARN no firmware name">>
             \o (IF pcloseOk THEN <<>> ELSE <<"ERROR closing pipe">>)

(***************************************************************************)
(* checkXconfValid()                                                       *)
(***************************************************************************)
\* mutation: a negation of the third disjunct dropped
XconfCondition_NegDropped(dbg, prod, bValidXconf) ==
    \/ (dbg /\ bValidXconf)
    \/ (prod /\ bValidXconf)
    \/ (~dbg /\ prod)

\* the condition of line 198
XconfCondition(dbg, prod, bValidXconf) ==
    \/ (dbg /\ bValidXconf)
    \/ (prod /\ bValidXconf)
    \/ (~dbg /\ ~prod)

checkXconfValid(dbg, prod, resp, popenOk) ==
    LET v == validXConfResponse(resp, popenOk)
    IN  [called |-> TRUE, ret |-> XconfCondition(dbg, prod, v.ret),
         dbg |-> dbg, prod |-> prod, valid |-> v]

(***************************************************************************)
(* Bounds of the model                                                     *)
(***************************************************************************)
\* by how much one sleep() may overrun sampleInterval
MaxOverrun == 1

\* by how much the sleeps of one run may overrun in total
MaxDrift == 1

(***************************************************************************)
(* State                                                                   *)
(***************************************************************************)
VARIABLES
    forceFSC,       \* /nvram/forceFSC exists
    fssVersion,     \* /fss/gw/version.txt
    rootVersion,    \* /version.txt
    responseTxt,    \* /tmp/response.txt
    clock,          \* CLOCK_MONOTONIC, in whole seconds
    pc,             \* where main is
    debugLogFile,   \* the stream the log macros write to
    bDebugOverride,
    bIsProduction,
    bValidImage,
    t1,
    elapsedTime,
    sleeps,         \* sleep() calls made
    probes,         \* checkXconfValid() calls made
    halCalls,       \* platform HAL calls made, in order
    prodCall,       \* what the last isProductionImage() did
    xconfCall,      \* what the last checkXconfValid() did
    logged,         \* what a function called under SpecFn wrote to the log;
                    \* the log never feeds back, main's is not kept
    exitCode

vars == <<forceFSC, fssVersion, rootVersion, responseTxt, clock, pc,
          debugLogFile, bDebugOverride, bIsProduction, bValidImage, t1, elapsedTime,
          sleeps, probes, halCalls, prodCall, xconfCall, logged, exitCode>>

env == <<forceFSC, fssVersion, rootVersion, responseTxt>>

prog == <<pc, debugLogFile, bDebugOverride, bIsProduction, bValidImage, t1, elapsedTime,
          sleeps, probes, halCalls, prodCall, xconfCall, logged, exitCode>>

NoProdCall ==
    [called |-> FALSE, ret |-> FALSE, cmd |-> "none", piped |-> FALSE,
     buf |-> <<>>]

NoXconfCall ==
    [called |-> FALSE, ret |-> FALSE, dbg |-> FALSE, prod |-> FALSE,
     valid |-> [ret |-> FALSE, exists |-> FALSE, piped |-> FALSE,
                buf |-> <<>>]]

\* the globals and main's locals before main's first statement
ProgInit ==
    /\ debugLogFile = "null"
    /\ bDebugOverride = FALSE
    /\ bIsProduction = FALSE
    /\ bValidImage = FALSE
    /\ t1 = 0
    /\ elapsedTime = 0
    /\ sleeps = 0
    /\ probes = 0
    /\ halCalls = <<>>
    /\ prodCall = NoProdCall
    /\ xconfCall = NoXconfCall
    /\ logged = <<>>
    /\ exitCode = -1

(***************************************************************************)
(* main()                                                                  *)
(***************************************************************************)
MainFssFiles == {NoFile, File(V_Prod)}

MainRootFiles == {NoFile, File(V_Vbn)}

MainResponseFiles == {NoFile, File(R_Valid), File(R_NoKey)}

\* the command lines main is started with: argv[0] .. argv[argc - 1]
ArgLists ==
    { <<"fscMonitor">>,
      <<"fscMonitor", "-LOGFILE", "/rdklogs/logs/FSC.log">>,
      <<"fscMonitor", "-LOGFILE">>,
      <<"fscMonitor", "-LOGFILE", "/rdklogs/logs/FSC.log", "-LOGFILE">> }

NULL == "(null)"

\* argv[idx], counted from 1; argv[argc] is a null pointer
Arg(argv, idx) == IF idx <= Len(argv) THEN argv[idx] ELSE NULL

\* fopen(name, "a+") of line 228: a stream, or 0 when the path cannot be
\* opened.  With a null pointer for name the call is undefined: it returns 0
\* as for any name that cannot be opened, or the process dies in it.
fopen(name) == IF name = NULL THEN {"0", "SIGSEGV"} ELSE {"file", "0"}

\* lines 231-239: stderr when fopen returned 0
LogFileOrStderr(f) == IF f = "0" THEN "stderr" ELSE f

RECURSIVE ParseLogFile(_, _, _)
\* the loop of lines 223-242 from argv[idx] on, debugLogFile being stream:
\* the streams debugLogFile may be left as, "SIGSEGV" when the process may
\* die in the loop
ParseLogFile(argv, idx, stream) ==
    IF stream = "SIGSEGV" \/ idx > Len(argv) THEN {stream}
    ELSE IF argv[idx] = "-LOGFILE"
    THEN UNION { ParseLogFile(argv, idx + 1, LogFileOrStderr(f)) :
                   f \in fopen(Arg(argv, idx + 1)) }
    ELSE ParseLogFile(argv, idx + 1, stream)

Init ==
    /\ forceFSC \in BOOLEAN
    /\ fssVersion \in MainFssFiles
    /\ rootVersion \in MainRootFiles
    /\ responseTxt \in MainResponseFiles
    /\ clock = 0
    /\ pc = "args"
    /\ ProgInit

\* lines 217-242
ParseArgs ==
    /\ pc = "args"
    /\ \E argv \in ArgLists :
          \E stream \in ParseLogFile(argv, 1, "stderr") :
             IF stream = "SIGSEGV"
             THEN /\ debugLogFile' = "stderr"
                  /\ pc' = "crashed"
             ELSE /\ debugLogFile' = stream
                  /\ pc' = "timeout"
    /\ UNCHANGED <<env, clock, bDebugOverride, bIsProduction, bValidImage, t1,
                   elapsedTime, sleeps, probes, halCalls, prodCall, xconfCall,
                   logged, exitCode>>

\* mutation: the shifted expiry time handed to the HAL
SetTimeout_Shifted ==
    /\ pc = "timeout"
    /\ halCalls' = Append(halCalls, [fn |-> "SetDeviceCodeImageTimeout",
                                     arg |-> FSC_TIMEOUT_VALUE - timeOffset])
    /\ pc' = "debug"
    /\ UNCHANGED <<env, debugLogFile, clock, bDebugOverride, bIsProduction, bValidImage, t1,
                   elapsedTime, sleeps, probes, prodCall, xconfCall, logged,
                   exitCode>>

\* line 245
SetTimeout ==
    /\ pc = "timeout"
    /\ halCalls' = Append(halCalls, [fn |-> "SetDeviceCodeImageTimeout",
                                     arg |-> FSC_TIMEOUT_VALUE])
    /\ pc' = "debug"
    /\ UNCHANGED <<env, debugLogFile, clock, bDebugOverride, bIsProduction, bValidImage, t1,
                   elapsedTime, sleeps, probes, prodCall, xconfCall, logged,
                   exitCode>>

\* lines 248-250
CheckDebugOverride ==
    /\ pc = "debug"
    /\ bDebugOverride' = forceFSC
    /\ pc' = "classify"
    /\ UNCHANGED <<env, debugLogFile, clock, bIsProduction, bValidImage, t1, elapsedTime,
                   sleeps, probes, halCalls, prodCall, xconfCall, logged,
                   exitCode>>

\* line 253
Classify ==
    /\ pc = "classify"
    /\ \E popenOk \in BOOLEAN :
          /\ prodCall' = isProductionImage(fssVersion, rootVersion, popenOk)
          /\ bIsProduction' = prodCall'.ret
    /\ pc' = "branch"
    /\ UNCHANGED <<env, debugLogFile, clock, bDebugOverride, bValidImage, t1, elapsedTime,
                   sleeps, probes, halCalls, xconfCall, logged,
                   exitCode>>

\* mutation: a negation dropped
NoCheckNeeded_NegDropped(dbg, prod) == ~dbg /\ prod

\* the condition of line 255
NoCheckNeeded(dbg, prod) == ~dbg /\ ~prod

\* mutation: a loop that a valid image does not end
WhileTest_Forever(valid) == "sleep"

\* while(!bValidImage), line 263
WhileTest(valid) == IF valid THEN "report" ELSE "sleep"

\* mutation: the response probed before the first sleep
Branch_ProbeFirst ==
    /\ pc = "branch"
    /\ IF NoCheckNeeded(bDebugOverride, bIsProduction)
       THEN /\ bValidImage' = TRUE
            /\ t1' = t1
       ELSE /\ bValidImage' = bValidImage
            /\ t1' = clock
    /\ pc' = IF bValidImage' THEN "report" ELSE "probe"
    /\ UNCHANGED <<env, debugLogFile, clock, bDebugOverride, bIsProduction,
                   elapsedTime, sleeps, probes, halCalls, prodCall, xconfCall,
                   logged, exitCode>>

\* lines 255-263
Branch ==
    /\ pc = "branch"
    /\ IF NoCheckNeeded(bDebugOverride, bIsProduction)
       THEN /\ bValidImage' = TRUE
            /\ t1' = t1
       ELSE /\ bValidImage' = bValidImage
            /\ t1' = clock
    /\ pc' = WhileTest(bValidImage')
    /\ UNCHANGED <<env, debugLogFile, clock, bDebugOverride, bIsProduction, elapsedTime,
                   sleeps, probes, halCalls, prodCall, xconfCall, logged,
                   exitCode>>

\* lines 265-270: sleep(sampleInterval) returns after sampleInterval seconds
\* or later, then the elapsed time is taken
Sleep ==
    /\ pc = "sleep"
    /\ \E late \in 0..MaxOverrun :
          /\ (clock + late - t1) - sleeps * sampleInterval <= MaxDrift
          /\ clock' = clock + sampleInterval + late
    /\ sleeps' = sleeps + 1
    /\ elapsedTime' = clock' - t1
    /\ pc' = "probe"
    /\ UNCHANGED <<env, debugLogFile, bDebugOverride, bIsProduction, bValidImage, t1,
                   probes, halCalls, prodCall, xconfCall, logged,
                   exitCode>>

\* mutation: > for >=
Expired_Strict(elapsed) == elapsed > FSC_TIMEOUT_VALUE - timeOffset

\* mutation: the expiry time not shifted by timeOffset
Expired_Unshifted(elapsed) == elapsed >= FSC_TIMEOUT_VALUE

\* the condition of line 277
Expired(elapsed) == elapsed >= FSC_TIMEOUT_VALUE - timeOffset

\* mutation: the expiry time tested before the response
Probe_DeadlineFirst ==
    /\ pc = "probe"
    /\ \E popenOk \in BOOLEAN :
          xconfCall' = checkXconfValid(bDebugOverride, bIsProduction,
                                       responseTxt, popenOk)
    /\ bValidImage' = IF Expired(elapsedTime) THEN FALSE ELSE xconfCall'.ret
    /\ probes' = probes + 1
    /\ pc' = IF Expired(elapsedTime)
             THEN "report"
             ELSE WhileTest(bValidImage')
    /\ UNCHANGED <<env, debugLogFile, clock, bDebugOverride, bIsProduction,
                   t1, elapsedTime, sleeps, halCalls, prodCall, logged,
                   exitCode>>

\* mutation: the marker file looked for again in every iteration
Probe_Reread ==
    /\ pc = "probe"
    /\ bDebugOverride' = forceFSC
    /\ \E popenOk \in BOOLEAN :
          xconfCall' = checkXconfValid(bDebugOverride', bIsProduction,
                                       responseTxt, popenOk)
    /\ bValidImage' = xconfCall'.ret
    /\ probes' = probes + 1
    /\ pc' = IF ~bValidImage' /\ Expired(elapsedTime)
             THEN "report"
             ELSE WhileTest(bValidImage')
    /\ UNCHANGED <<env, debugLogFile, clock, bIsProduction, t1, elapsedTime,
                   sleeps, halCalls, prodCall, logged, exitCode>>

\* lines 275-284, and the loop condition of line 263
Probe ==
    /\ pc = "probe"
    /\ \E popenOk \in BOOLEAN :
          xconfCall' = checkXconfValid(bDebugOverride, bIsProduction,
                                       responseTxt, popenOk)
    /\ bValidImage' = xconfCall'.ret
    /\ probes' = probes + 1
    /\ pc' = IF ~bValidImage' /\ Expired(elapsedTime)
             THEN "report"
             ELSE WhileTest(bValidImage')
    /\ UNCHANGED <<env, debugLogFile, clock, bDebugOverride, bIsProduction, t1, elapsedTime,
                   sleeps, halCalls, prodCall, logged, exitCode>>

\* mutation: the flag inverted
Report_Inverted ==
    /\ pc = "report"
    /\ halCalls' = Append(halCalls, [fn |-> "SetDeviceCodeImageValid",
                                     arg |-> ~bValidImage])
    /\ pc' = "exit"
    /\ UNCHANGED <<env, debugLogFile, clock, bDebugOverride, bIsProduction, bValidImage, t1,
                   elapsedTime, sleeps, probes, prodCall, xconfCall, logged,
                   exitCode>>

\* line 287
Report ==
    /\ pc = "report"
    /\ halCalls' = Append(halCalls, [fn |-> "SetDeviceCodeImageValid",
                                     arg |-> bValidImage])
    /\ pc' = "exit"
    /\ UNCHANGED <<env, debugLogFile, clock, bDebugOverride, bIsProduction, bValidImage, t1,
                   elapsedTime, sleeps, probes, prodCall, xconfCall, logged,
                   exitCode>>

\* mutation: the verdict returned as the exit code
Exit_Verdict ==
    /\ pc = "exit"
    /\ debugLogFile' = "closed"
    /\ exitCode' = IF bValidImage THEN 0 ELSE 1
    /\ pc' = "done"
    /\ UNCHANGED <<env, clock, bDebugOverride, bIsProduction, bValidImage, t1,
                   elapsedTime, sleeps, probes, halCalls, prodCall, xconfCall,
                   logged>>

\* lines 289-295
Exit ==
    /\ pc = "exit"
    /\ debugLogFile' = "closed"
    /\ exitCode' = 0
    /\ pc' = "done"
    /\ UNCHANGED <<env, clock, bDebugOverride, bIsProduction, bValidImage, t1,
                   elapsedTime, sleeps, probes, halCalls, prodCall, xconfCall,
                   logged>>

Running == pc \notin {"done", "killed", "crashed", "fn"}

\* mutation: a handler that reports FALSE before the process ends
Interrupt_ReportsFalse ==
    /\ Running
    /\ halCalls' = IF pc \in {"sleep", "probe"}
                   THEN Append(halCalls, [fn |-> "SetDeviceCodeImageValid",
                                          arg |-> FALSE])
                   ELSE halCalls
    /\ pc' = "killed"
    /\ UNCHANGED <<env, debugLogFile, clock, bDebugOverride, bIsProduction,
                   bValidImage, t1, elapsedTime, sleeps, probes, prodCall,
                   xconfCall, logged, exitCode>>

\* a terminating signal: no handler is installed, the process ends where it is
Interrupt ==
    /\ Running
    /\ pc' = "killed"
    /\ UNCHANGED <<env, debugLogFile, clock, bDebugOverride, bIsProduction, bValidImage, t1,
                   elapsedTime, sleeps, probes, halCalls, prodCall, xconfCall,
                   logged, exitCode>>

(***************************************************************************)
(* The files are written by others while the process runs.  Nothing reads  *)
(* a file between a wake-up and the probe that follows it, nor after the   *)
(* loop, so a change made there is the same as one made during the sleep   *)
(* before: the changes are taken while main starts up or sleeps.           *)
(***************************************************************************)
\* the process is starting up or asleep
Idle == pc \in {"args", "timeout", "debug", "classify", "branch", "sleep"}

EnvForceFSC ==
    /\ Idle
    /\ forceFSC' = ~forceFSC
    /\ UNCHANGED <<fssVersion, rootVersion, responseTxt, clock, prog>>

EnvVersion ==
    /\ Idle
    /\ \/ /\ fssVersion' \in MainFssFiles \ {fssVersion}
          /\ rootVersion' = rootVersion
       \/ /\ rootVersion' \in MainRootFiles \ {rootVersion}
          /\ fssVersion' = fssVersion
    /\ UNCHANGED <<forceFSC, responseTxt, clock, prog>>

EnvResponse ==
    /\ Idle
    /\ responseTxt' \in MainResponseFiles \ {responseTxt}
    /\ UNCHANGED <<forceFSC, fssVersion, rootVersion, clock, prog>>

Next ==
    \/ ParseArgs
    \/ SetTimeout
    \/ CheckDebugOverride
    \/ Classify
    \/ Branch
    \/ Sleep
    \/ Probe
    \/ Report
    \/ Exit
    \/ Interrupt
    \/ EnvForceFSC
    \/ EnvVersion
    \/ EnvResponse

Spec == Init /\ [][Next]_vars

\* the statements of main
Main ==
    \/ ParseArgs
    \/ SetTimeout
    \/ CheckDebugOverride
    \/ Classify
    \/ Branch
    \/ Sleep
    \/ Probe
    \/ Report
    \/ Exit

\* main is one thread of straight-line code: every call it makes returns
\* (fopen, the HAL calls, stat, popen .. pclose of a pipeline that reads one
\* file, sleep), so the statement it is at is executed unless the process
\* is ended first
FairSpec == Spec /\ WF_vars(Main)

(***************************************************************************)
(* The functions on their own: any files, any flags                        *)
(***************************************************************************)
InitFn ==
    /\ forceFSC = FALSE
    /\ fssVersion \in Files(VersionTexts)
    /\ rootVersion \in Files(VersionTexts)
    /\ responseTxt \in Files(ResponseTexts)
    /\ clock = 0
    /\ pc = "fn"
    /\ debugLogFile = "stderr"
    /\ bDebugOverride \in BOOLEAN
    /\ bIsProduction \in BOOLEAN
    /\ bValidImage = FALSE
    /\ t1 = 0
    /\ elapsedTime = 0
    /\ sleeps = 0
    /\ probes = 0
    /\ halCalls = <<>>
    /\ prodCall = NoProdCall
    /\ xconfCall = NoXconfCall
    /\ logged = <<>>
    /\ exitCode = -1

CallIsProductionImage ==
    /\ pc = "fn"
    /\ \E popenOk \in BOOLEAN, pcloseOk \in BOOLEAN :
          /\ prodCall' = isProductionImage(fssVersion, rootVersion, popenOk)
          /\ logged' = isProductionImageLog(fssVersion, rootVersion, popenOk,
                                            pcloseOk)
    /\ UNCHANGED <<env, debugLogFile, clock, pc, bDebugOverride, bIsProduction, bValidImage,
                   t1, elapsedTime, sleeps, probes, halCalls, xconfCall, exitCode>>

CallCheckXconfValid ==
    /\ pc = "fn"
    /\ \E popenOk \in BOOLEAN, pcloseOk \in BOOLEAN :
          /\ xconfCall' = checkXconfValid(bDebugOverride, bIsProduction,
                                          responseTxt, popenOk)
          /\ logged' = validXConfResponseLog(responseTxt, popenOk, pcloseOk)
    /\ UNCHANGED <<env, debugLogFile, clock, pc, bDebugOverride, bIsProduction, bValidImage,
                   t1, elapsedTime, sleeps, probes, halCalls, prodCall, exitCode>>

NextFn ==
    \/ CallIsProductionImage
    \/ CallCheckXconfValid

SpecFn == InitFn /\ [][NextFn]_vars

(***************************************************************************)
(* Properties                                                              *)
(***************************************************************************)
ValidCalls ==
    SelectSeq(halCalls, LAMBDA c : c.fn = "SetDeviceCodeImageValid")

TimeoutCalls ==
    SelectSeq(halCalls, LAMBDA c : c.fn = "SetDeviceCodeImageTimeout")

\* a line as read by fgets, without its terminator
Chomp(buf) ==
    IF buf # <<>> /\ buf[Len(buf)] = NL THEN SubSeq(buf, 1, Len(buf) - 1) ELSE buf

\* main is past the loop
Done == pc \in {"report", "exit", "done"}

\* C1: for all eight combinations of (debugOverride, isProduction,
\* remoteValid), checkXconfValid returns remoteValid when debugOverride or
\* isProduction holds and TRUE otherwise, case by case: FFF->T, TFF->F,
\* TFT->T, FTF->F, FTT->T, TTF->F, TTT->T, FFT->T.
C1_TruthTable ==
    xconfCall.called =>
        LET d == xconfCall.dbg
            p == xconfCall.prod
            r == xconfCall.valid.ret
        IN  /\ xconfCall.ret = (IF d \/ p THEN r ELSE TRUE)
            /\ (~d /\ ~p /\ ~r) => xconfCall.ret = TRUE
            /\ ( d /\ ~p /\ ~r) => xconfCall.ret = FALSE
            /\ ( d /\ ~p /\  r) => xconfCall.ret = TRUE
            /\ (~d /\  p /\ ~r) => xconfCall.ret = FALSE
            /\ (~d /\  p /\  r) => xconfCall.ret = TRUE
            /\ ( d /\  p /\ ~r) => xconfCall.ret = FALSE
            /\ ( d /\  p /\  r) => xconfCall.ret = TRUE
            /\ (~d /\ ~p /\  r) => xconfCall.ret = TRUE

\* checkXconfValid has returned FALSE for (TRUE, FALSE, FALSE)
C1_Witness ==
    /\ xconfCall.called
    /\ xconfCall.dbg /\ ~xconfCall.prod /\ ~xconfCall.valid.ret
    /\ ~xconfCall.ret

\* C2: with the debug override marker absent and the image classified as
\* not production, main sleeps zero times, probes the response zero times,
\* and the validity call is issued with TRUE.
C2_NoPollingWhenNoCheck ==
    (prodCall.called /\ ~bDebugOverride /\ ~bIsProduction) =>
        /\ sleeps = 0
        /\ probes = 0
        /\ pc \notin {"sleep", "probe"}
        /\ Done => bValidImage
        /\ \A i \in 1..Len(ValidCalls) : ValidCalls[i].arg = TRUE
        /\ pc \in {"exit", "done"} => Len(ValidCalls) = 1

\* such a run has ended
C2_Witness ==
    /\ pc = "done"
    /\ prodCall.called /\ ~bDebugOverride /\ ~bIsProduction
    /\ Len(ValidCalls) = 1

\* C3: when debugOverride or isProduction holds and no probe finds a valid
\* response, the loop goes on only while the elapsed time is below 3300, it
\* reports FALSE at the first iteration whose elapsed time is >= 3300, and
\* it does not wait until 3600.
C3_TimeoutAt3300 ==
    /\ (pc = "sleep" /\ probes > 0) => elapsedTime < 3300
    /\ (Done /\ ~bValidImage) =>
          /\ bDebugOverride \/ bIsProduction
          /\ probes > 0
          /\ elapsedTime >= 3300
          /\ elapsedTime < 3600
    /\ \A i \in 1..Len(ValidCalls) :
          ValidCalls[i].arg = FALSE => elapsedTime >= 3300

\* a run has reported FALSE
C3_Witness ==
    /\ pc = "done"
    /\ ~bValidImage
    /\ Len(ValidCalls) = 1 /\ ValidCalls[1].arg = FALSE
    /\ elapsedTime >= 3300

\* the response file exists and the value extracted from it is not empty
ResponseHasName(resp) ==
    /\ doesFileExist(resp)
    /\ Chomp(fgets(DATA_SIZE, ResponseCmd(resp.data))) # <<>>

\* C4 as stated: a probe made while the response file exists with a
\* non-empty firmwareFilename value ends the loop with verdict TRUE.
C4_ExitsWhenNamePresent ==
    [][(pc = "probe" /\ probes' = probes + 1 /\ ResponseHasName(responseTxt))
          => (bValidImage' /\ pc' = "report")]_vars

\* C4, amended: a probe made while the response file exists with a non-empty
\* firmwareFilename value, and whose pipe could be opened, ends the loop with
\* verdict TRUE; after that there is no further sleep or probe, and TRUE is
\* what is reported.
C4_ExitsWhenNameRead ==
    /\ [][(pc = "probe" /\ probes' = probes + 1
             /\ ResponseHasName(responseTxt) /\ xconfCall'.valid.piped)
            => (bValidImage' /\ pc' = "report")]_vars
    /\ [][(Done /\ bValidImage)
            => (sleeps' = sleeps /\ probes' = probes /\ bValidImage')]_vars
    /\ []((pc \in {"exit", "done"} /\ bValidImage)
            => (Len(ValidCalls) = 1 /\ ValidCalls[1].arg = TRUE))

\* the second probe was the first to read a firmware name
C4_Witness ==
    /\ pc = "report"
    /\ sleeps = 2 /\ probes = 2
    /\ xconfCall.valid.piped /\ xconfCall.valid.ret
    /\ ResponseHasName(responseTxt)
    /\ bValidImage

\* C5: platform_hal_SetDeviceCodeImageValid is called at most once, never
\* before the loop has been left, and, once main is past the call, exactly
\* once with the final verdict.
C5_ValidCalledOnceAfterLoop ==
    /\ Len(ValidCalls) <= 1
    /\ pc \in {"args", "crashed", "timeout", "debug", "classify", "branch",
              "sleep", "probe", "report"}
          => Len(ValidCalls) = 0
    /\ pc \in {"exit", "done"} => Len(ValidCalls) = 1
    /\ Len(ValidCalls) = 1 => ValidCalls[1].arg = bValidImage

\* a run that polled has made the call
C5_Witness ==
    /\ pc = "done"
    /\ sleeps > 0
    /\ Len(ValidCalls) = 1 /\ ValidCalls[1].arg = bValidImage

\* C6: platform_hal_SetDeviceCodeImageTimeout is called exactly once, with
\* 3600, and before the debug override check, the image classification,
\* every sleep, every probe and the validity call.
C6_TimeoutCalledOnceFirst ==
    /\ Len(TimeoutCalls) <= 1
    /\ halCalls = <<>> =>
          /\ pc \in {"args", "crashed", "timeout", "killed"}
          /\ ~bDebugOverride /\ ~bIsProduction
          /\ ~prodCall.called /\ ~xconfCall.called
          /\ sleeps = 0 /\ probes = 0
    /\ halCalls # <<>> =>
          /\ halCalls[1].fn = "SetDeviceCodeImageTimeout"
          /\ halCalls[1].arg = 3600
    /\ pc \notin {"args", "crashed", "timeout", "killed"}
          => Len(TimeoutCalls) = 1

\* a run that polled until the expiry time has made the call once
C6_Witness ==
    /\ pc = "done"
    /\ sleeps > 0 /\ ~bValidImage
    /\ Len(TimeoutCalls) = 1 /\ halCalls[1].arg = 3600

\* C7: when a version file exists and the pipe runs, the image is Production
\* if the extracted token is PROD and DebugOrOther for any other token.
C7_ProdTokenIsProduction ==
    (prodCall.called /\ prodCall.piped) =>
        prodCall.ret = (Chomp(prodCall.buf) = PROD)

\* C8: when neither version file exists isProductionImage returns TRUE
\* without opening a pipe; polling is then required and the verdict is TRUE
\* only if the last probe found a valid response.
C8_MissingVersionIsProduction ==
    /\ [][(pc = "classify" /\ pc' = "branch"
             /\ ~doesFileExist(fssVersion) /\ ~doesFileExist(rootVersion))
            => /\ prodCall'.cmd = "none"
               /\ prodCall'.ret
               /\ ~prodCall'.piped
               /\ bIsProduction']_vars
    /\ []((prodCall.called /\ prodCall.cmd = "none") =>
            /\ prodCall.ret /\ ~prodCall.piped /\ bIsProduction
            /\ Done => (sleeps >= 1 /\ probes >= 1)
            /\ (Done /\ bValidImage) => xconfCall.valid.ret
            /\ \A i \in 1..Len(ValidCalls) :
                  ValidCalls[i].arg = TRUE => xconfCall.valid.ret)

\* a run without version files has ended with verdict TRUE
C8_Witness ==
    /\ pc = "done"
    /\ prodCall.called /\ prodCall.cmd = "none"
    /\ bIsProduction /\ ~bDebugOverride
    /\ Len(ValidCalls) = 1 /\ ValidCalls[1].arg = TRUE

\* C9: when /fss/gw/version.txt exists the command names it and what is read
\* comes from it alone; /version.txt is named only when /fss/gw/version.txt
\* does not exist.
C9_FssVersionPreferred ==
    prodCall.called =>
        /\ doesFileExist(fssVersion) =>
              /\ prodCall.cmd = FSS_VERSION_PATH
              /\ prodCall.piped =>
                    /\ prodCall.buf = fgets(DATA_SIZE, VersionCmd(fssVersion.data))
                    /\ prodCall.ret = IsProdToken(prodCall.buf)
        /\ prodCall.cmd = ROOT_VERSION_PATH =>
              /\ ~doesFileExist(fssVersion)
              /\ doesFileExist(rootVersion)

\* both files exist, with different tokens, and the one of
\* /fss/gw/version.txt was read
C9_Witness ==
    /\ prodCall.called /\ prodCall.piped
    /\ fssVersion = File(V_Vbn)
    /\ rootVersion = File(V_Prod)
    /\ prodCall.buf = <<"V", "B", "N", NL>>

\* C10: validXConfResponse returns TRUE only if /tmp/response.txt exists and
\* a non-empty firmwareFilename value was extracted from it; it returns
\* FALSE when the file is absent and FALSE when the file is present but the
\* extracted value is empty.
C10_ValidOnlyWithName ==
    xconfCall.called =>
        LET v == xconfCall.valid
        IN  /\ v.ret => (v.exists /\ Chomp(v.buf) # <<>>)
            /\ ~v.exists => ~v.ret
            /\ (v.exists /\ v.piped /\ Chomp(v.buf) = <<>>) => ~v.ret

\* popen returned NULL in the last isProductionImage()
ProdPopenFailed == prodCall.called /\ prodCall.cmd # "none" /\ ~prodCall.piped

\* popen returned NULL in the validXConfResponse() of the last probe
XconfPopenFailed ==
    xconfCall.called /\ xconfCall.valid.exists /\ ~xconfCall.valid.piped

\* C11: when popen fails, isProductionImage returns TRUE (Production) and
\* validXConfResponse returns FALSE for that iteration; the run goes on:
\* after such a probe main sleeps again and probes again, until a probe is
\* made with the elapsed time at or past 3300, which ends the loop with
\* FALSE.
C11_PopenFailureIsConservative ==
    /\ ProdPopenFailed =>
          /\ prodCall.ret
          /\ pc \notin {"classify"} => bIsProduction
          /\ pc \notin {"classify", "branch", "killed"} => (sleeps > 0 \/ pc = "sleep")
    /\ XconfPopenFailed =>
          /\ ~xconfCall.valid.ret
          /\ ~xconfCall.ret
          /\ ~bValidImage
          /\ \/ pc = "sleep" /\ ~Expired(elapsedTime)
             \/ pc = "probe" /\ sleeps = probes + 1
             \/ Done /\ Expired(elapsedTime)
             \/ pc = "killed"

\* both pipes failed: the image is taken for a production image, and the
\* response, although it names a firmware, is taken for invalid and main
\* sleeps again
C11_Witness ==
    /\ pc = "sleep"
    /\ ProdPopenFailed /\ bIsProduction /\ ~bDebugOverride
    /\ probes >= 2
    /\ XconfPopenFailed
    /\ ResponseHasName(responseTxt)
    /\ ~bValidImage

\* the last function called logged that pclose reported an error
PcloseFailed == logged # <<>> /\ logged[Len(logged)] = "ERROR closing pipe"

\* C12: when pclose reports an error the result is the conservative one
\* whatever was read from the pipe: isProductionImage returns TRUE
\* (Production) and validXConfResponse returns FALSE (invalid).
C12_PcloseFailureIsConservative ==
    /\ (PcloseFailed /\ logged[1] \in {"INFO production image",
                                        "INFO debug/VBN image"})
          => prodCall.ret
    /\ (PcloseFailed /\ logged[1] \in {"INFO firmware name",
                                        "WARN no firmware name"})
          => ~xconfCall.valid.ret

\* a run is ended by a signal, dies in the argument loop, or returns from
\* main with the validity call made once
ReportsUnlessStopped ==
    <>(pc \in {"killed", "crashed"} \/ (pc = "done" /\ Len(ValidCalls) = 1))

C14_ExitCodeZero ==
    /\ pc = "done" =>
          /\ exitCode = 0
          /\ Len(ValidCalls) = 1
          /\ ValidCalls[1].arg = bValidImage
    /\ pc # "done" => exitCode = -1

\* a run has returned 0 after reporting FALSE
C14_Witness ==
    /\ pc = "done"
    /\ exitCode = 0
    /\ ~bValidImage
    /\ Len(ValidCalls) = 1 /\ ValidCalls[1].arg = FALSE

\* C15: bDebugOverride is assigned by the marker check alone and
\* bIsProduction by the one call of isProductionImage alone, both before the
\* loop; from then on they keep their values, whatever becomes of
\* /nvram/forceFSC and the version files, and every probe computes the
\* verdict from these values and the response alone.
C15_FlagsFixedBeforeLoop ==
    /\ [][bDebugOverride' # bDebugOverride => (pc = "debug" /\ pc' = "classify")]_vars
    /\ [][bIsProduction' # bIsProduction => (pc = "classify" /\ pc' = "branch")]_vars
    /\ [][prodCall' # prodCall => (pc = "classify" /\ pc' = "branch")]_vars
    /\ [][(pc \in {"branch", "sleep", "probe", "report", "exit", "done", "killed"})
            => (/\ bDebugOverride' = bDebugOverride
                /\ bIsProduction' = bIsProduction)]_vars
    /\ [][(probes' = probes + 1)
            => (/\ xconfCall'.dbg = bDebugOverride
                /\ xconfCall'.prod = bIsProduction
                /\ bValidImage' = XconfCondition(bDebugOverride, bIsProduction,
                                                 xconfCall'.valid.ret))]_vars
    /\ []((prodCall.called /\ pc # "classify") => bIsProduction = prodCall.ret)

\* the marker is gone and /fss/gw/version.txt has appeared since the flags
\* were set from the marker and from /version.txt; the flags are as they
\* were and the run has polled to the end and reported FALSE
C15_Witness ==
    /\ pc = "done"
    /\ bDebugOverride /\ ~forceFSC
    /\ prodCall.cmd = ROOT_VERSION_PATH /\ doesFileExist(fssVersion)
    /\ ~bIsProduction
    /\ probes >= 2
    /\ ~bValidImage
    /\ Len(ValidCalls) = 1 /\ ValidCalls[1].arg = FALSE

\* C16: a probe is made only while no probe has computed TRUE, and a probe
\* that computes TRUE ends the loop; past the loop nothing is probed and the
\* verdict stays.  So the verdict reported is TRUE iff no polling was
\* required or the last probe computed TRUE, and FALSE only if the last
\* probe, like all before it, computed FALSE and was made with the elapsed
\* time at or past 3300.
C16_VerdictNeverFlaps ==
    /\ [][(probes' = probes + 1)
            => (/\ ~bValidImage
                /\ probes > 0 => ~xconfCall.ret
                /\ bValidImage' = xconfCall'.ret
                /\ bValidImage' => pc' = "report")]_vars
    /\ [][Done => (/\ probes' = probes
                   /\ sleeps' = sleeps
                   /\ xconfCall' = xconfCall
                   /\ bValidImage' = bValidImage)]_vars
    /\ [](pc \in {"exit", "done"} =>
            /\ Len(ValidCalls) = 1
            /\ probes = 0 <=> NoCheckNeeded(bDebugOverride, bIsProduction)
            /\ ValidCalls[1].arg <=> (probes = 0 \/ xconfCall.ret)
            /\ ~ValidCalls[1].arg =>
                  /\ probes > 0
                  /\ ~xconfCall.ret
                  /\ elapsedTime >= 3300)

\* TRUE has been reported after a probe that computed TRUE, which was not
\* the first probe
C16_Witness ==
    /\ pc = "done"
    /\ probes >= 2
    /\ xconfCall.ret /\ bValidImage
    /\ Len(ValidCalls) = 1 /\ ValidCalls[1].arg = TRUE

\* C17: every probe comes after a sleep of its own: as many sleeps as
\* probes have been made, and one more when main is about to probe; each
\* sleep lasts 30 or more, so the first probe, and with it a report of TRUE
\* by a run that had to poll, comes 30 or more after the start time taken.
C17_SleepBeforeEveryProbe ==
    /\ probes <= sleeps
    /\ pc = "probe" => sleeps = probes + 1
    /\ pc \in {"sleep", "report", "exit", "done"} => sleeps = probes
    /\ sleeps > 0 =>
          /\ clock - t1 >= 30 * sleeps
          /\ elapsedTime >= 30 * sleeps
    /\ probes > 0 => elapsedTime >= 30
    /\ \A i \in 1..Len(ValidCalls) :
          (ValidCalls[i].arg /\ (bDebugOverride \/ bIsProduction)) =>
              /\ sleeps >= 1 /\ probes >= 1
              /\ clock - t1 >= 30

\* the first probe read a firmware name: TRUE has been reported after one
\* sleep and one probe, 30 after the start time
C17_Witness ==
    /\ pc = "done"
    /\ bDebugOverride \/ bIsProduction
    /\ sleeps = 1 /\ probes = 1
    /\ ResponseHasName(responseTxt)
    /\ elapsedTime = 30
    /\ Len(ValidCalls) = 1 /\ ValidCalls[1].arg = TRUE

\* C18: when the last probe was made with the elapsed time at or past 3300
\* and validXConfResponse returned TRUE in it, the verdict is TRUE and TRUE
\* is what is reported: the elapsed time decides only after a probe that
\* computed FALSE.
C18_SuccessBeforeDeadline ==
    (Done /\ probes > 0 /\ elapsedTime >= 3300 /\ xconfCall.valid.ret) =>
        /\ xconfCall.ret
        /\ bValidImage
        /\ \A i \in 1..Len(ValidCalls) : ValidCalls[i].arg = TRUE
        /\ pc \in {"exit", "done"} => Len(ValidCalls) = 1

\* the probe made at 3300 or later was the first to read a firmware name,
\* and TRUE has been reported
C18_Witness ==
    /\ pc = "done"
    /\ elapsedTime >= 3300
    /\ xconfCall.valid.ret
    /\ bValidImage
    /\ Len(ValidCalls) = 1 /\ ValidCalls[1].arg = TRUE

\* C19: with sleeps that each take 30 or more, the loop body runs at most
\* 110 times: the 110th probe is made with the elapsed time at or past 3300
\* and the loop is left after it, with FALSE when that probe computed FALSE.
C19_AtMost110Iterations ==
    /\ sleeps <= 110
    /\ probes <= 110
    /\ sleeps > 0 => elapsedTime >= 30 * sleeps
    /\ sleeps = 110 => elapsedTime >= 3300
    /\ probes = 110 =>
          /\ pc \in {"report", "exit", "done", "killed"}
          /\ ~xconfCall.ret =>
                /\ ~bValidImage
                /\ \A i \in 1..Len(ValidCalls) : ValidCalls[i].arg = FALSE

\* a run has left the loop after its 110th probe and reported FALSE
C19_Witness ==
    /\ pc = "done"
    /\ sleeps = 110 /\ probes = 110
    /\ elapsedTime = 3300
    /\ ~xconfCall.ret /\ ~bValidImage
    /\ Len(ValidCalls) = 1 /\ ValidCalls[1].arg = FALSE

\* C20: a run ended by a signal while main sleeps or probes has made the
\* timeout call with 3600 and no other platform call, and makes none
\* afterwards: the validity call is made neither with TRUE nor with FALSE,
\* and main does not return.
C20_InterruptedPollingReportsNothing ==
    /\ [][(pc \in {"sleep", "probe"} /\ pc' = "killed")
            => (/\ Len(halCalls') = 1
                /\ halCalls'[1].fn = "SetDeviceCodeImageTimeout"
                /\ halCalls'[1].arg = 3600
                /\ exitCode' = -1)]_vars
    /\ [][pc = "killed" => (pc' = "killed" /\ halCalls' = halCalls)]_vars
    /\ [](pc \in {"sleep", "probe"} =>
            /\ Len(ValidCalls) = 0
            /\ Len(TimeoutCalls) = 1)

\* a run was ended between its third sleep and its third probe
C20_Witness ==
    /\ pc = "killed"
    /\ sleeps = 3 /\ probes = 2
    /\ Len(halCalls) = 1
    /\ halCalls[1].fn = "SetDeviceCodeImageTimeout"
    /\ Len(ValidCalls) = 0
    /\ exitCode = -1

============================================================================
